---- MODULE Spec2Model ----
(***************************************************************************)
(* A model of the BadgerDB B+-tree index (src/Btree/src/btree.cpp,         *)
(* btree.h): the index file as a sequence of pages, the buffer manager's   *)
(* pin counts, the insert engine, the scan engine and the open/close       *)
(* lifecycle.  Arrays keep the source's 0-based indices: keyArray,         *)
(* pageNoArray and ridArray are functions on 0..n-1.  A page id is the     *)
(* page's position in the file (the first page of a file is page 1), and   *)
(* Page::INVALID_NUMBER is 0.  A RecordId is represented by its            *)
(* page_number, which the code alone inspects.                             *)
(***************************************************************************)
EXTENDS Integers, Sequences, FiniteSets, TLC

(***************************************************************************)
(* Bounds.  The node capacities are the source's INTARRAYLEAFSIZE and      *)
(* INTARRAYNONLEAFSIZE for a small page.  All array accesses of the split  *)
(* code stay inside the arrays when INTARRAYLEAFSIZE >= 2 and              *)
(* INTARRAYNONLEAFSIZE >= 4, as they do with the real page size.           *)
(***************************************************************************)
INTARRAYLEAFSIZE == 2
INTARRAYNONLEAFSIZE == 4
\* keys offered to insertEntry and to startScan are 0..MaxKey
MaxKey == 2
\* insertEntry calls made by the user after the index was constructed
MaxInserts == 2
\* startScan calls
MaxScans == 1
\* constructor calls after the first one (close, then open again)
MaxReopens == 1

INVALID_NUMBER == 0

leafOccupancy == INTARRAYLEAFSIZE
nodeOccupancy == INTARRAYNONLEAFSIZE

\* enum Datatype
INTEGER == 0
DOUBLE == 1
GT == "GT"
GTE == "GTE"
LT == "LT"
LTE == "LTE"
Operator == {LT, LTE, GTE, GT}

Min(S) == CHOOSE x \in S : \A y \in S : x <= y

compareOp(x, y, op) ==
    CASE op = LT -> x < y
      [] op = LTE -> x <= y
      [] op = GTE -> x >= y
      [] op = GT -> x > y
      [] OTHER -> FALSE

(***************************************************************************)
(* Buffer manager events.  Every operation is modelled with the sequence   *)
(* of readPage/allocPage (pin) and unPinPage (unpin) calls it makes, in    *)
(* program order; the pin counts are obtained by replaying that sequence.  *)
(***************************************************************************)
Pin(p) == [ev |-> "pin", page |-> p, dirty |-> FALSE]
UnPin(p, d) == [ev |-> "unpin", page |-> p, dirty |-> d]

\* pin count of page p in the function cnt (pages not pinned are absent)
PinCntOf(cnt, p) == IF p \in DOMAIN cnt THEN cnt[p] ELSE 0

\* the pins of page p less its unpins among the first n calls of lg
Net(lg, n, p) ==
    Cardinality({i \in 1..n : lg[i].ev = "pin" /\ lg[i].page = p})
      - Cardinality({i \in 1..n : lg[i].ev = "unpin" /\ lg[i].page = p})

\* pin count of page p after the first n calls of lg
CountAt(cnt, lg, n, p) == PinCntOf(cnt, p) + Net(lg, n, p)

\* an unPinPage of a page that is not pinned, or of the invalid page id
BadUnpinIn(cnt, lg) ==
    \E i \in 1..Len(lg) :
        /\ lg[i].ev = "unpin"
        /\ \/ lg[i].page = INVALID_NUMBER
           \/ CountAt(cnt, lg, i - 1, lg[i].page) <= 0

(***************************************************************************)
(* Pages.                                                                  *)
(***************************************************************************)
\* a page as allocPage hands it out; every field is set by clearNode or
\* clearLeaf before it is read
BlankNode ==
    [kind |-> "node", level |-> 0,
     keyArray |-> [i \in 0..(nodeOccupancy - 1) |-> 0],
     pageNoArray |-> [i \in 0..nodeOccupancy |-> INVALID_NUMBER]]

BlankLeaf ==
    [kind |-> "leaf",
     keyArray |-> [i \in 0..(leafOccupancy - 1) |-> 0],
     ridArray |-> [i \in 0..(leafOccupancy - 1) |-> INVALID_NUMBER],
     rightSibPageNo |-> INVALID_NUMBER]

clearNode(node, level, st, ed) ==
    [node EXCEPT
        !.level = level,
        !.keyArray = [i \in DOMAIN @ |-> IF st <= i /\ i < ed THEN 0 ELSE @[i]],
        !.pageNoArray = [i \in DOMAIN @ |->
                            IF (st <= i /\ i < ed) \/ i = ed
                            THEN INVALID_NUMBER ELSE @[i]]]

clearLeaf(leaf, rightSibPageNo, st, ed) ==
    [leaf EXCEPT
        !.rightSibPageNo = rightSibPageNo,
        !.keyArray = [i \in DOMAIN @ |-> IF st <= i /\ i < ed THEN 0 ELSE @[i]],
        !.ridArray = [i \in DOMAIN @ |->
                         IF st <= i /\ i < ed THEN INVALID_NUMBER ELSE @[i]]]

\* the loop moves pageNoArray[pos+1..m] and keyArray[pos..m-1] one slot right
insertPageKeyPairAux(node, m, pk, pos) ==
    [node EXCEPT
        !.pageNoArray = [j \in DOMAIN @ |->
                            IF j = pos + 1 THEN pk.pageNo
                            ELSE IF pos + 2 <= j /\ j <= m + 1 THEN @[j - 1]
                            ELSE @[j]],
        !.keyArray = [j \in DOMAIN @ |->
                         IF j = pos THEN pk.key
                         ELSE IF pos + 1 <= j /\ j <= m THEN @[j - 1]
                         ELSE @[j]]]

\* the loop moves ridArray[pos..m-1] and keyArray[pos..m-1] one slot right
insertRIDKeyPairAux(leaf, m, rk, pos) ==
    [leaf EXCEPT
        !.ridArray = [j \in DOMAIN @ |->
                         IF j = pos THEN rk.rid
                         ELSE IF pos + 1 <= j /\ j <= m THEN @[j - 1]
                         ELSE @[j]],
        !.keyArray = [j \in DOMAIN @ |->
                         IF j = pos THEN rk.key
                         ELSE IF pos + 1 <= j /\ j <= m THEN @[j - 1]
                         ELSE @[j]]]

\* the insert descent with the operator GTE
InsertDescentOpGTE == GTE

\* the operator the insert descent hands to findPageNumInNode
InsertDescentOp == GT

findPageNumInNode(node, val, op) ==
    IF node.pageNoArray[1] = INVALID_NUMBER
    THEN node.pageNoArray[0]
    ELSE LET hits == {i \in 0..nodeOccupancy :
                        /\ \A j \in 0..i : node.pageNoArray[j] # INVALID_NUMBER
                        /\ \/ i + 1 = nodeOccupancy + 1
                           \/ node.pageNoArray[i + 1] = INVALID_NUMBER
                           \/ compareOp(node.keyArray[i], val, op)}
         IN  IF hits = {} THEN INVALID_NUMBER ELSE node.pageNoArray[Min(hits)]

(***************************************************************************)
(* insertRIDKeyPair: the leaf after the insert, and on a split the new     *)
(* leaf (allocated as page splitPageNum) and the pair copied up.           *)
(***************************************************************************)
LeafCount(leaf) ==
    LET empty == {i \in 0..(leafOccupancy - 1) : leaf.ridArray[i] = INVALID_NUMBER}
    IN  IF empty = {} THEN leafOccupancy ELSE Min(empty)

\* the insert position when the loop leaves pos as initialised if no key of
\* the leaf is greater
LeafPosLeftAtCapacity(leaf, key) ==
    LET m == LeafCount(leaf)
        above == {i \in 0..(m - 1) : leaf.keyArray[i] > key}
    IN  IF above = {} THEN leafOccupancy ELSE Min(above)

LeafPos(leaf, key) ==
    LET m == LeafCount(leaf)
        above == {i \in 0..(m - 1) : leaf.keyArray[i] > key}
    IN  IF above = {} THEN m ELSE Min(above)

\* the copy loop of the split started at index 0 whatever the insert position
CopyRightHalfFromSlotZero(split, leaf, mid, m, splitIndex) ==
    [split EXCEPT
        !.keyArray = [j \in DOMAIN @ |->
                         IF j < m - mid THEN leaf.keyArray[mid + j] ELSE @[j]],
        !.ridArray = [j \in DOMAIN @ |->
                         IF j < m - mid THEN leaf.ridArray[mid + j] ELSE @[j]]]

\* the copy loop of the split: entries mid..m-1 go to the split leaf from
\* index splitIndex on
CopyRightHalf(split, leaf, mid, m, splitIndex) ==
    [split EXCEPT
        !.keyArray = [j \in DOMAIN @ |->
                         IF splitIndex <= j /\ j < splitIndex + (m - mid)
                         THEN leaf.keyArray[mid + (j - splitIndex)] ELSE @[j]],
        !.ridArray = [j \in DOMAIN @ |->
                         IF splitIndex <= j /\ j < splitIndex + (m - mid)
                         THEN leaf.ridArray[mid + (j - splitIndex)] ELSE @[j]]]

LeafMid(m) == (m + 1) \div 2

\* the split branch, for a full leaf with m entries and insert position pos
splitLeaf(leaf, rk, splitPageNum, m, pos, mid) ==
    LET split1 == CopyRightHalf(clearLeaf(BlankLeaf, leaf.rightSibPageNo, 0, m),
                                leaf, mid, m, IF pos <= mid THEN 1 ELSE 0)
        leaf1 == IF pos <= mid
                 THEN insertRIDKeyPairAux(leaf, mid, rk, pos) ELSE leaf
        split2 == IF pos <= mid
                  THEN [split1 EXCEPT !.keyArray[0] = leaf1.keyArray[mid],
                                      !.ridArray[0] = leaf1.ridArray[mid]]
                  ELSE insertRIDKeyPairAux(split1, m - mid, rk, pos - mid)
    IN  [ok |-> FALSE,
         leaf |-> clearLeaf(leaf1, splitPageNum, mid, m),
         split |-> split2,
         pk |-> [pageNo |-> splitPageNum, key |-> split2.keyArray[0]]]

\* the body of insertRIDKeyPair after its first loop found m and pos
insertRIDKeyPairAt(leaf, rk, splitPageNum, m, pos) ==
    IF m # leafOccupancy
    THEN [ok |-> TRUE, leaf |-> insertRIDKeyPairAux(leaf, m, rk, pos),
          split |-> BlankLeaf, pk |-> [pageNo |-> INVALID_NUMBER, key |-> 0]]
    ELSE splitLeaf(leaf, rk, splitPageNum, m, pos, LeafMid(m))

insertRIDKeyPair(leaf, rk, splitPageNum) ==
    insertRIDKeyPairAt(leaf, rk, splitPageNum, LeafCount(leaf), LeafPos(leaf, rk.key))

(***************************************************************************)
(* The part of insertEntryAux after the child returned a pair to insert:   *)
(* the node after the insert, and on a split the new node and the pair     *)
(* pushed up.                                                              *)
(***************************************************************************)
NodeCount(node) ==
    LET empty == {i \in 0..(nodeOccupancy - 1) :
                    node.pageNoArray[i + 1] = INVALID_NUMBER}
    IN  IF empty = {} THEN nodeOccupancy ELSE Min(empty)

NodePos(node, key) ==
    LET m == NodeCount(node)
        above == {i \in 0..(m - 1) : node.keyArray[i] > key}
    IN  IF above = {} THEN m ELSE Min(above)

NodeMid(m) == (m + 1) \div 2

\* the copy loop of the split: keys mid..m-1 and pages mid..m go to the split node
CopyRightNode(split, node, mid, m) ==
    [split EXCEPT
        !.pageNoArray = [j \in DOMAIN @ |->
                            IF j <= m - mid THEN node.pageNoArray[mid + j] ELSE @[j]],
        !.keyArray = [j \in DOMAIN @ |->
                         IF j < m - mid THEN node.keyArray[mid + j] ELSE @[j]]]

\* the count of keys the split branch passes for the insert into the left half
LeftHalfCount(mid) == mid + 1

\* the count of keys the split branch passes for the insert into the split node
SplitHalfCount(m, mid) == m - mid - 1

\* the first slot the split branch clears in the original node
NodeClearFrom(mid) == mid

\* the split branch, for a full node with m keys and insert position pos
splitNode(node, pushedOrCopied, splitPageNum, m, pos, mid) ==
    LET split1 == CopyRightNode(clearNode(BlankNode, node.level, 0, m), node, mid, m)
        node1 == IF pos <= mid
                 THEN insertPageKeyPairAux(node, LeftHalfCount(mid),
                                           pushedOrCopied, pos)
                 ELSE node
    IN  [ok |-> FALSE,
         node |-> clearNode(node1, node1.level, NodeClearFrom(mid), m),
         split |-> IF pos <= mid THEN split1
                   ELSE insertPageKeyPairAux(split1, SplitHalfCount(m, mid),
                                             pushedOrCopied, pos - mid),
         pk |-> [pageNo |-> splitPageNum, key |-> node1.keyArray[mid]]]

\* the insert in the current node after the loop found m and pos
insertPageKeyPairAt(node, pushedOrCopied, splitPageNum, m, pos) ==
    IF m # nodeOccupancy
    THEN [ok |-> TRUE, node |-> insertPageKeyPairAux(node, m, pushedOrCopied, pos),
          split |-> BlankNode, pk |-> [pageNo |-> INVALID_NUMBER, key |-> 0]]
    ELSE splitNode(node, pushedOrCopied, splitPageNum, m, pos, NodeMid(m))

insertPageKeyPair(node, pushedOrCopied, splitPageNum) ==
    insertPageKeyPairAt(node, pushedOrCopied, splitPageNum, NodeCount(node),
                        NodePos(node, pushedOrCopied.key))

(***************************************************************************)
(* insertEntryAux on the pinned node page nodeNum of the file pgs: the     *)
(* file afterwards, whether the insert completed without a split of the    *)
(* node, the pair pushed up, and the buffer manager calls made.            *)
(***************************************************************************)
\* the file, result and calls of the insert in the leaf page leafNum, given
\* what insertRIDKeyPair returned
leafInserted(pgs, leafNum, r) ==
    [pages |-> IF r.ok THEN [pgs EXCEPT ![leafNum] = r.leaf]
               ELSE Append([pgs EXCEPT ![leafNum] = r.leaf], r.split),
     ok |-> r.ok, pk |-> r.pk,
     log |-> IF r.ok THEN <<>>
             ELSE <<Pin(Len(pgs) + 1), UnPin(Len(pgs) + 1, TRUE)>>]

\* the insert in the node page with the child still pinned while the node splits
nodeInsertedChildStillPinned(below, nodeNum, log1, r) ==
    [pages |-> IF r.ok THEN [below.pages EXCEPT ![nodeNum] = r.node]
               ELSE Append([below.pages EXCEPT ![nodeNum] = r.node], r.split),
     ok |-> r.ok, pk |-> r.pk,
     log |-> IF r.ok THEN log1
             ELSE SubSeq(log1, 1, Len(log1) - 1)
                    \o <<Pin(Len(below.pages) + 1),
                         UnPin(Len(below.pages) + 1, TRUE)>>
                    \o <<log1[Len(log1)]>>]

\* the file, result and calls of the insert in the node page nodeNum, given
\* what the child returned, the calls so far and the result of the insert of
\* the pushed or copied pair
nodeInserted(below, nodeNum, log1, r) ==
    [pages |-> IF r.ok THEN [below.pages EXCEPT ![nodeNum] = r.node]
               ELSE Append([below.pages EXCEPT ![nodeNum] = r.node], r.split),
     ok |-> r.ok, pk |-> r.pk,
     log |-> IF r.ok THEN log1
             ELSE log1 \o <<Pin(Len(below.pages) + 1),
                            UnPin(Len(below.pages) + 1, TRUE)>>]

\* insertEntryAux after the child page nxtPageNum returned below
afterChild(nodeNum, nxtPageNum, below) ==
    IF below.ok
    THEN [below EXCEPT !.log = <<Pin(nxtPageNum)>> \o @ \o <<UnPin(nxtPageNum, TRUE)>>]
    ELSE nodeInserted(below, nodeNum,
                      <<Pin(nxtPageNum)>> \o below.log \o <<UnPin(nxtPageNum, TRUE)>>,
                      insertPageKeyPair(below.pages[nodeNum], below.pk,
                                        Len(below.pages) + 1))

RECURSIVE insertEntryAux(_, _, _)
\* insertEntryAux with the child page to go into
intoChild(pgs, nodeNum, rk, nxtPageNum) ==
    afterChild(nodeNum, nxtPageNum,
               IF pgs[nodeNum].level = 1
               THEN leafInserted(pgs, nxtPageNum,
                                 insertRIDKeyPair(pgs[nxtPageNum], rk, Len(pgs) + 1))
               ELSE insertEntryAux(pgs, nxtPageNum, rk))

insertEntryAux(pgs, nodeNum, rk) ==
    intoChild(pgs, nodeNum, rk,
              findPageNumInNode(pgs[nodeNum], rk.key, InsertDescentOp))

(***************************************************************************)
(* insertEntry on the index (file pgs, in-memory root page id root).       *)
(***************************************************************************)
\* the new root node allocated at level 1
newRootNodeAtLevelOne(root, pushed) ==
    insertPageKeyPairAux(
        [clearNode(BlankNode, 1, 0, nodeOccupancy) EXCEPT !.pageNoArray[0] = root],
        0, pushed, 0)

\* the new root node: the old root as its first child, then the pushed pair
newRootNode(root, pushed) ==
    insertPageKeyPairAux(
        [clearNode(BlankNode, 0, 0, nodeOccupancy) EXCEPT !.pageNoArray[0] = root],
        0, pushed, 0)

\* insertEntry with the old root left pinned when the root grows
rootReturnedOldRootLeftPinned(root, a) ==
    IF a.ok
    THEN [pages |-> a.pages, rootPageNum |-> root,
          log |-> <<Pin(root)>> \o a.log \o <<UnPin(root, TRUE)>>]
    ELSE [pages |-> Append(a.pages, newRootNode(root, a.pk)),
          rootPageNum |-> Len(a.pages) + 1,
          log |-> <<Pin(root)>> \o a.log
                    \o <<Pin(Len(a.pages) + 1), UnPin(Len(a.pages) + 1, TRUE)>>]

\* insertEntry after insertEntryAux on the root returned a
rootReturned(root, a) ==
    IF a.ok
    THEN [pages |-> a.pages, rootPageNum |-> root,
          log |-> <<Pin(root)>> \o a.log \o <<UnPin(root, TRUE)>>]
    ELSE [pages |-> Append(a.pages, newRootNode(root, a.pk)),
          rootPageNum |-> Len(a.pages) + 1,
          log |-> <<Pin(root)>> \o a.log
                    \o <<UnPin(root, TRUE), Pin(Len(a.pages) + 1),
                         UnPin(Len(a.pages) + 1, TRUE)>>]

insertEntry(pgs, root, rk) == rootReturned(root, insertEntryAux(pgs, root, rk))

(***************************************************************************)
(* findLeafPageNum: the leaf page id (or INVALID_NUMBER) and the buffer    *)
(* manager calls of the descent.                                           *)
(***************************************************************************)
RECURSIVE findLeafPageNum(_, _, _, _)
findLeafPageNum(pgs, curPageNum, val, op) ==
    LET node == pgs[curPageNum]
        nxtPageNum == findPageNumInNode(node, val, op)
        here == <<Pin(curPageNum), UnPin(curPageNum, FALSE)>>
    IN  IF node.level = 1 \/ nxtPageNum = INVALID_NUMBER
        THEN [page |-> nxtPageNum, log |-> here]
        ELSE LET d == findLeafPageNum(pgs, nxtPageNum, val, op)
             IN  [page |-> d.page, log |-> here \o d.log]

(***************************************************************************)
(* updateScanEntry from the pinned leaf cur and entry index ne, for the    *)
(* scan bounds sc: whether an entry in range was found, the new current    *)
(* page and entry index, and the buffer manager calls made.                *)
(***************************************************************************)
ScanNotFound(cur, log) ==
    [found |-> FALSE, currentPageNum |-> INVALID_NUMBER, nextEntry |-> -1,
     log |-> log \o <<UnPin(cur, FALSE)>>]

\* the crossing to the right sibling sib with the sibling pinned first
SiblingPinnedFirst(cur, sib) == <<Pin(sib), UnPin(cur, FALSE)>>

\* the buffer manager calls of the crossing from leaf cur to its right sibling sib
CrossToSibling(cur, sib) == <<UnPin(cur, FALSE), Pin(sib)>>

RECURSIVE updateScanEntry(_, _, _, _)
updateScanEntry(pgs, cur, ne, sc) ==
    LET leaf == pgs[cur]
        n1 == ne + 1
        atEnd == n1 >= leafOccupancy \/ leaf.ridArray[n1] = INVALID_NUMBER
    IN  IF atEnd /\ leaf.rightSibPageNo = INVALID_NUMBER
        THEN ScanNotFound(cur, <<>>)
        ELSE
          LET cur2 == IF atEnd THEN leaf.rightSibPageNo ELSE cur
              n2 == IF atEnd THEN 0 ELSE n1
              cross == IF atEnd THEN CrossToSibling(cur, cur2) ELSE <<>>
              k == pgs[cur2].keyArray[n2]
          IN  IF ~compareOp(k, sc.lowValInt, sc.lowOp)
              THEN LET r == updateScanEntry(pgs, cur2, n2, sc)
                   IN  [r EXCEPT !.log = cross \o @]
              ELSE IF ~compareOp(k, sc.highValInt, sc.highOp)
              THEN ScanNotFound(cur2, cross)
              ELSE [found |-> TRUE, currentPageNum |-> cur2, nextEntry |-> n2,
                    log |-> cross]

(***************************************************************************)
(* Names and records.  A string is the sequence of its character codes.    *)
(***************************************************************************)
\* the relation the index is built over: "rel"
RelationName == <<114, 101, 108>>

RECURSIVE Decimal(_)
Decimal(n) == IF n < 10 THEN <<48 + n>> ELSE Decimal(n \div 10) \o <<48 + (n % 10)>>

\* idxStr << relationName << '.' << attrByteOffset
IndexName(relationName, attrByteOffset) ==
    relationName \o <<46>> \o Decimal(attrByteOffset)

\* the four bytes of a 32-bit value, least significant first
Bytes4(n) == <<n % 256, (n \div 256) % 256, (n \div 65536) % 256, (n \div 16777216) % 256>>

\* outIndexName.copy(indexMetaInfoPtr->relationName, 20) into a zeroed page
NameField(name) ==
    [i \in 1..20 |-> IF i <= Len(name) THEN name[i] ELSE 0]

RECURSIVE UpToNul(_)
UpToNul(bytes) ==
    IF bytes = <<>> \/ Head(bytes) = 0 THEN <<>>
    ELSE <<Head(bytes)>> \o UpToNul(Tail(bytes))

\* the C string that starts at indexMetaInfoPtr->relationName: the field has
\* no terminator of its own, the members that follow it are read on
HeaderNameCStr(h) ==
    UpToNul(h.relationName \o Bytes4(h.attrByteOffset) \o Bytes4(h.attrType)
              \o Bytes4(h.rootPageNo) \o <<0>>)

\* the key of a record: the int at record + attrByteOffset
KeyAt(record, attrByteOffset) ==
    record[attrByteOffset + 1] + 256 * record[attrByteOffset + 2]
      + 65536 * record[attrByteOffset + 3] + 16777216 * record[attrByteOffset + 4]

Record(k) == <<k, 0, 0, 0, 0>>

RECURSIVE Records(_)
Records(keys) ==
    IF keys = <<>> THEN <<>> ELSE <<Record(Head(keys))>> \o Records(Tail(keys))

\* the relations an index is built over: an empty one, one whose records
\* fill the first root and one of its leaves, and one whose records make the
\* first root split
Relations == {Records(<<>>),
              Records(<<0, 0, 0, 0, 1, 1, 0>>),
              Records(<<0, 0, 0, 2, 2, 2, 2>>)}

(***************************************************************************)
(* The constructor's bulk build: insertEntry for every record of the       *)
(* relation, the record's position in the relation as its RecordId.        *)
(***************************************************************************)
RECURSIVE BulkBuild(_, _, _, _, _)
\* the build from record i + 1 on, after the insertEntry of record i returned r
restBuilt(r, rel, attrByteOffset, i, rest) == [rest EXCEPT !.log = r.log \o @]

nextRecord(r, rel, attrByteOffset, i) ==
    restBuilt(r, rel, attrByteOffset, i,
              BulkBuild(r.pages, r.rootPageNum, rel, attrByteOffset, i + 1))

BulkBuild(pgs, root, rel, attrByteOffset, i) ==
    IF i > Len(rel) THEN [pages |-> pgs, rootPageNum |-> root, log |-> <<>>]
    ELSE nextRecord(insertEntry(pgs, root,
                                [rid |-> i, key |-> KeyAt(rel[i], attrByteOffset)]),
                    rel, attrByteOffset, i)

\* the new index file: header page 1, root page 2, first leaf page 3
NewFile(indexName, attrByteOffset, attrType) ==
    <<[kind |-> "header", relationName |-> NameField(indexName),
       attrByteOffset |-> attrByteOffset, attrType |-> attrType, rootPageNo |-> 2],
      [clearNode(BlankNode, 1, 0, nodeOccupancy) EXCEPT !.pageNoArray[0] = 3],
      clearLeaf(BlankLeaf, INVALID_NUMBER, 0, leafOccupancy)>>

\* the constructor's check without the comparison of the attribute type
HeaderMatchesNameAndOffset(h, indexName, attrByteOffset, attrType) ==
    ~ \/ attrByteOffset # h.attrByteOffset
      \/ indexName # HeaderNameCStr(h)

\* whether the header page of an existing file passes the constructor's check
HeaderMatches(h, indexName, attrByteOffset, attrType) ==
    ~ \/ attrType # h.attrType
      \/ attrByteOffset # h.attrByteOffset
      \/ indexName # HeaderNameCStr(h)

(***************************************************************************)
(* The constructor on the file system fs (index name -> pages).            *)
(***************************************************************************)
\* the file did not exist: b is the bulk build of the new file
createdIndex(name, rel, attrByteOffset, b) ==
    [err |-> "none", created |-> TRUE, name |-> name,
     pages |-> b.pages, rootPageNum |-> b.rootPageNum,
     keys |-> [i \in 1..Len(rel) |-> KeyAt(rel[i], attrByteOffset)],
     log |-> <<Pin(1), Pin(2), Pin(3), UnPin(1, TRUE), UnPin(2, TRUE),
               UnPin(3, TRUE)>> \o b.log]

\* the file existed: pgs are its pages
openedIndex(name, pgs, attrByteOffset, attrType) ==
    [err |-> IF HeaderMatches(pgs[1], name, attrByteOffset, attrType)
             THEN "none" ELSE "BAD_INDEX_INFO",
     created |-> FALSE, name |-> name,
     pages |-> pgs, rootPageNum |-> pgs[1].rootPageNo,
     keys |-> <<>>,
     log |-> <<Pin(1), UnPin(1, FALSE)>>]

\* the constructor with the index file name it derived
ConstructNamed(fs, rel, name, attrByteOffset, attrType) ==
    IF name \notin DOMAIN fs
    THEN createdIndex(name, rel, attrByteOffset,
                      BulkBuild(NewFile(name, attrByteOffset, attrType), 2, rel,
                                attrByteOffset, 1))
    ELSE openedIndex(name, fs[name], attrByteOffset, attrType)

Construct(fs, rel, relationName, attrByteOffset, attrType) ==
    ConstructNamed(fs, rel, IndexName(relationName, attrByteOffset), attrByteOffset,
                   attrType)

(***************************************************************************)
(* The state.                                                              *)
(***************************************************************************)
VARIABLES
    relation,        \* the records of the base relation
    fs,              \* the index files: index name -> sequence of pages
    hist,            \* per index file, the keys inserted so far; the i-th
                     \* insert carries RecordId i
    open,            \* whether a BTreeIndex object exists
    file,            \* the name of the object's index file
    rootPageNum,
    scanExecuting,
    nextEntry,
    currentPageNum,
    lowValInt,
    lowOp,
    highValInt,
    highOp,
    pinCnt,          \* buffer manager: page id -> pin count, for pinned pages
    lastOp,          \* the public operation that ran last
    err,             \* the exception it raised, or "none"
    created,         \* whether the last constructor call created the file
    log,             \* the buffer manager calls it made
    peakPins,        \* the most pins held at one moment while it ran
    badUnpin,        \* whether it unpinned a page that was not pinned
    yielded,         \* the RecordIds scanNext returned since the last startScan
    scanFresh,       \* no insertEntry ran since the last startScan
    insertedSinceOpen, \* insertEntry was called on the object that is open
    nInserts,
    nScans,
    nReopens

scanVars == <<scanExecuting, nextEntry, currentPageNum, lowValInt, lowOp,
              highValInt, highOp>>
vars == <<relation, fs, hist, open, file, rootPageNum, scanExecuting, nextEntry,
          currentPageNum, lowValInt, lowOp, highValInt, highOp, pinCnt, lastOp,
          err, created, log, peakPins, badUnpin, yielded, scanFresh,
          insertedSinceOpen, nInserts, nScans, nReopens>>

\* the pages of the open index file
pages == fs[file]

\* the root page id the header page of the open file holds
HeaderRoot == pages[1].rootPageNo

Keys == 0..MaxKey

NoPins == [q \in {} |-> 0]

\* pin counts after the calls of lg, for the pages left pinned
Pinned(cnt, lg) ==
    LET touched == (DOMAIN cnt) \cup {lg[i].page : i \in 1..Len(lg)}
        left == {p \in touched : CountAt(cnt, lg, Len(lg), p) > 0}
    IN  [p \in left |-> CountAt(cnt, lg, Len(lg), p)]

RECURSIVE SumPins(_, _)
SumPins(cnt, S) ==
    IF S = {} THEN 0
    ELSE LET x == CHOOSE y \in S : TRUE IN cnt[x] + SumPins(cnt, S \ {x})

TotalPins(cnt) == SumPins(cnt, DOMAIN cnt)

\* the pins less the unpins among the first n calls of lg
NetAll(lg, n) ==
    Cardinality({i \in 1..n : lg[i].ev = "pin"})
      - Cardinality({i \in 1..n : lg[i].ev = "unpin"})

Max(S) == CHOOSE x \in S : \A y \in S : x >= y

\* the most pins held at one moment while the calls of lg are made
PeakPins(cnt, lg) ==
    TotalPins(cnt) + Max({NetAll(lg, n) : n \in 0..Len(lg)})

\* the bookkeeping every operation does for the calls lg it made
Account(op, e, lg) ==
    /\ lastOp' = op
    /\ err' = e
    /\ log' = lg
    /\ pinCnt' = Pinned(pinCnt, lg)
    /\ peakPins' = PeakPins(pinCnt, lg)
    /\ badUnpin' = BadUnpinIn(pinCnt, lg)

(***************************************************************************)
(* Init: the first constructor call, which creates the index file of       *)
(* attribute offset 0 and builds it from the relation.                     *)
(***************************************************************************)
\* the state after the constructor call on the relation rel returned c
Constructed(rel, c) ==
    /\ relation = rel
    /\ fs = (c.name :> c.pages)
    /\ hist = (c.name :> c.keys)
    /\ file = c.name
    /\ rootPageNum = c.rootPageNum
    /\ log = c.log
    /\ pinCnt = Pinned(NoPins, c.log)
    /\ peakPins = PeakPins(NoPins, c.log)
    /\ badUnpin = BadUnpinIn(NoPins, c.log)

Init ==
    /\ \E rel \in Relations :
         Constructed(rel, Construct(<<>>, rel, RelationName, 0, INTEGER))
    /\ open = TRUE
    /\ scanExecuting = FALSE
    /\ nextEntry = -1
    /\ currentPageNum = INVALID_NUMBER
    /\ lowValInt = 0
    /\ lowOp = GT
    /\ highValInt = 0
    /\ highOp = LT
    /\ lastOp = "open"
    /\ err = "none"
    /\ created = TRUE
    /\ yielded = <<>>
    /\ scanFresh = FALSE
    /\ insertedSinceOpen = FALSE
    /\ nInserts = 0
    /\ nScans = 0
    /\ nReopens = 0

(***************************************************************************)
(* insertEntry(key, rid)                                                   *)
(***************************************************************************)
\* the state after insertEntry returned r
Inserted(r) ==
    /\ fs' = [fs EXCEPT ![file] = r.pages]
    /\ rootPageNum' = r.rootPageNum
    /\ Account("insertEntry", "none", r.log)

InsertEntry(key) ==
    /\ open
    /\ nInserts < MaxInserts
    /\ Inserted(insertEntry(pages, rootPageNum,
                            [rid |-> Len(hist[file]) + 1, key |-> key]))
    /\ hist' = [hist EXCEPT ![file] = Append(@, key)]
    /\ nInserts' = nInserts + 1
    /\ scanFresh' = FALSE
    /\ insertedSinceOpen' = TRUE
    /\ UNCHANGED <<relation, open, file, scanVars, created, yielded, nScans, nReopens>>

(***************************************************************************)
(* endScan, as startScan and the destructor call it on an executing scan   *)
(***************************************************************************)
\* endScan without the test of currentPageNum
EndScanLogUnguarded == <<UnPin(currentPageNum, FALSE)>>

\* endScan that leaves the current leaf pinned
EndScanLogLeafLeftPinned == <<>>

EndScanLog == IF currentPageNum # INVALID_NUMBER
              THEN <<UnPin(currentPageNum, FALSE)>> ELSE <<>>

(***************************************************************************)
(* startScan(lowVal, lowOp, highVal, highOp)                               *)
(***************************************************************************)
StartScanFails(e) ==
    /\ Account("startScan", e, <<>>)
    /\ UNCHANGED <<relation, fs, hist, open, file, rootPageNum, scanVars, created,
                   yielded, scanFresh, insertedSinceOpen, nInserts, nReopens>>

\* the arguments offered to startScan: every pair of bounds with the operators
\* startScan accepts, and an ordered and an unordered pair of bounds with
\* operators it rejects (low, high and both)
ScanArgs ==
    {<<lo, lop, hi, hop>> : lo \in Keys, lop \in {GT, GTE}, hi \in Keys,
                            hop \in {LT, LTE}}
      \cup {<<lo, ops[1], 0, ops[2]>> :
               lo \in {0, MaxKey}, ops \in {<<LT, LT>>, <<GT, GT>>, <<LTE, GTE>>}}

\* startScan that leaves a scan executing only if it found an entry
StartedOnlyIfFound(sc, u, lg) ==
    /\ scanExecuting' = u.found
    /\ lowValInt' = sc.lowValInt
    /\ lowOp' = sc.lowOp
    /\ highValInt' = sc.highValInt
    /\ highOp' = sc.highOp
    /\ currentPageNum' = u.currentPageNum
    /\ nextEntry' = u.nextEntry
    /\ Account("startScan", IF u.found THEN "none" ELSE "NO_SUCH_KEY", lg)
    /\ yielded' = <<>>
    /\ scanFresh' = TRUE
    /\ UNCHANGED <<relation, fs, hist, open, file, rootPageNum, created,
                   insertedSinceOpen, nInserts, nReopens>>

\* the state after startScan set the scan fields; u is the result of
\* updateScanEntry (or its absence, for a descent that found no leaf), lg the
\* calls made
Started(sc, u, lg) ==
    /\ scanExecuting' = TRUE
    /\ lowValInt' = sc.lowValInt
    /\ lowOp' = sc.lowOp
    /\ highValInt' = sc.highValInt
    /\ highOp' = sc.highOp
    /\ currentPageNum' = u.currentPageNum
    /\ nextEntry' = u.nextEntry
    /\ Account("startScan", IF u.found THEN "none" ELSE "NO_SUCH_KEY", lg)
    /\ yielded' = <<>>
    /\ scanFresh' = TRUE
    /\ UNCHANGED <<relation, fs, hist, open, file, rootPageNum, created,
                   insertedSinceOpen, nInserts, nReopens>>

\* the scan from the leaf page the descent d returned
firstEntry(sc, d) ==
    IF d.page # INVALID_NUMBER
    THEN updateScanEntry(pages, d.page, -1, sc)
    ELSE [found |-> FALSE, currentPageNum |-> d.page,
          nextEntry |-> IF scanExecuting THEN -1 ELSE nextEntry,
          log |-> <<>>]

\* startScan that does not end the scan that is executing
DescendedOldScanNotEnded(sc, d, u) ==
    Started(sc, u,
            d.log \o (IF d.page # INVALID_NUMBER THEN <<Pin(d.page)>> ELSE <<>>)
              \o u.log)

\* startScan after the descent d
Descended(sc, d, u) ==
    Started(sc, u,
            (IF scanExecuting THEN EndScanLog ELSE <<>>) \o d.log
              \o (IF d.page # INVALID_NUMBER THEN <<Pin(d.page)>> ELSE <<>>)
              \o u.log)

\* startScan with valid arguments
Scanning(sc, d) == Descended(sc, d, firstEntry(sc, d))

\* the checks of the arguments with the range check made first
startScanThrowsRangeFirst(lowValParm, lowOpParm, highValParm, highOpParm) ==
    IF lowValParm > highValParm THEN "BAD_SCAN_RANGE"
    ELSE IF (lowOpParm # GT /\ lowOpParm # GTE) \/ (highOpParm # LT /\ highOpParm # LTE)
    THEN "BAD_OPCODES"
    ELSE "none"

\* the checks of the arguments with equal bounds rejected too
startScanThrowsOnEqualBounds(lowValParm, lowOpParm, highValParm, highOpParm) ==
    IF (lowOpParm # GT /\ lowOpParm # GTE) \/ (highOpParm # LT /\ highOpParm # LTE)
    THEN "BAD_OPCODES"
    ELSE IF lowValParm >= highValParm THEN "BAD_SCAN_RANGE"
    ELSE "none"

\* the exception startScan throws before it touches the scan, or "none"
startScanThrows(lowValParm, lowOpParm, highValParm, highOpParm) ==
    IF (lowOpParm # GT /\ lowOpParm # GTE) \/ (highOpParm # LT /\ highOpParm # LTE)
    THEN "BAD_OPCODES"
    ELSE IF lowValParm > highValParm THEN "BAD_SCAN_RANGE"
    ELSE "none"

\* one call of startScan
startScan(lowValParm, lowOpParm, highValParm, highOpParm) ==
    /\ nScans' = nScans + 1
    /\ IF startScanThrows(lowValParm, lowOpParm, highValParm, highOpParm) # "none"
       THEN StartScanFails(startScanThrows(lowValParm, lowOpParm, highValParm,
                                           highOpParm))
       ELSE Scanning([lowValInt |-> lowValParm, lowOp |-> lowOpParm,
                      highValInt |-> highValParm, highOp |-> highOpParm],
                     findLeafPageNum(pages, rootPageNum, lowValParm, lowOpParm))

StartScan(lowValParm, lowOpParm, highValParm, highOpParm) ==
    /\ open
    /\ nScans < MaxScans
    /\ startScan(lowValParm, lowOpParm, highValParm, highOpParm)

\* one more startScan than MaxScans allows, called while a scan is executing
Restart(lowValParm, lowOpParm, highValParm, highOpParm) ==
    /\ open
    /\ scanExecuting
    /\ nScans = MaxScans
    /\ startScan(lowValParm, lowOpParm, highValParm, highOpParm)

(***************************************************************************)
(* scanNext(outRid)                                                        *)
(***************************************************************************)
\* the state after scanNext returned outRid and updateScanEntry returned u
Advanced(outRid, u) ==
    /\ yielded' = Append(yielded, outRid)
    /\ currentPageNum' = u.currentPageNum
    /\ nextEntry' = u.nextEntry
    /\ Account("scanNext", "none", u.log)
    /\ UNCHANGED <<scanExecuting, lowValInt, lowOp, highValInt, highOp>>

\* the checks of scanNext with the check of nextEntry made first
scanNextThrowsCompletedFirst ==
    IF nextEntry = -1 THEN "SCAN_COMPLETED"
    ELSE IF ~scanExecuting THEN "SCAN_NOT_INITIALIZED"
    ELSE "none"

\* the checks of scanNext with one exception for both
scanNextThrowsOneException ==
    IF ~scanExecuting \/ nextEntry = -1 THEN "SCAN_NOT_INITIALIZED" ELSE "none"

\* the exception scanNext throws before it returns a RecordId, or "none"
scanNextThrows ==
    IF ~scanExecuting THEN "SCAN_NOT_INITIALIZED"
    ELSE IF nextEntry = -1 THEN "SCAN_COMPLETED"
    ELSE "none"

ScanNext ==
    /\ open
    /\ IF scanNextThrows # "none"
       THEN /\ Account("scanNext", scanNextThrows, <<>>)
            /\ UNCHANGED <<scanVars, yielded>>
       ELSE Advanced(pages[currentPageNum].ridArray[nextEntry],
                     updateScanEntry(pages, currentPageNum, nextEntry,
                                     [lowValInt |-> lowValInt, lowOp |-> lowOp,
                                      highValInt |-> highValInt, highOp |-> highOp]))
    /\ UNCHANGED <<relation, fs, hist, open, file, rootPageNum, created, scanFresh,
                   insertedSinceOpen, nInserts, nScans, nReopens>>

(***************************************************************************)
(* endScan()                                                               *)
(***************************************************************************)
EndScan ==
    /\ open
    /\ IF ~scanExecuting
       THEN /\ Account("endScan", "SCAN_NOT_INITIALIZED", <<>>)
            /\ UNCHANGED scanVars
       ELSE /\ Account("endScan", "none", EndScanLog)
            /\ scanExecuting' = FALSE
            /\ nextEntry' = -1
            /\ currentPageNum' = INVALID_NUMBER
            /\ UNCHANGED <<lowValInt, lowOp, highValInt, highOp>>
    /\ UNCHANGED <<relation, fs, hist, open, file, rootPageNum, created, yielded,
                   scanFresh, insertedSinceOpen, nInserts, nScans, nReopens>>

(***************************************************************************)
(* The destructor: ends an executing scan, flushes the file (which fails   *)
(* when a page of the file is still pinned) and closes it.  The object is  *)
(* gone afterwards: its members hold no values, and the variables that     *)
(* stand for them are set as Init sets them.                               *)
(***************************************************************************)
Close ==
    /\ open
    /\ LET lg == IF scanExecuting THEN EndScanLog ELSE <<>>
       IN  Account("close",
                   IF Pinned(pinCnt, lg) # NoPins THEN "PAGE_PINNED" ELSE "none", lg)
    /\ open' = FALSE
    /\ file' = <<>>
    /\ rootPageNum' = INVALID_NUMBER
    /\ scanExecuting' = FALSE
    /\ nextEntry' = -1
    /\ currentPageNum' = INVALID_NUMBER
    /\ lowValInt' = 0
    /\ lowOp' = GT
    /\ highValInt' = 0
    /\ highOp' = LT
    /\ yielded' = <<>>
    /\ scanFresh' = FALSE
    /\ insertedSinceOpen' = FALSE
    /\ UNCHANGED <<relation, fs, hist, created, nInserts, nScans, nReopens>>

(***************************************************************************)
(* A later constructor call, on the same relation.                         *)
(***************************************************************************)
\* the state after the constructor call returned c
Returned(c) ==
    /\ Account("open", c.err, c.log)
    /\ created' = c.created
    /\ IF c.err = "none"
       THEN /\ open' = TRUE
            /\ file' = c.name
            /\ rootPageNum' = c.rootPageNum
            /\ fs' = IF c.created THEN (c.name :> c.pages) @@ fs ELSE fs
            /\ hist' = IF c.created THEN (c.name :> c.keys) @@ hist ELSE hist
       ELSE UNCHANGED <<open, file, rootPageNum, fs, hist>>

Reopen(attrByteOffset, attrType) ==
    /\ ~open
    /\ nReopens < MaxReopens
    /\ nReopens' = nReopens + 1
    /\ Returned(Construct(fs, relation, RelationName, attrByteOffset, attrType))
    /\ UNCHANGED <<relation, scanVars, yielded, scanFresh, insertedSinceOpen,
                   nInserts, nScans>>

\* the (attrByteOffset, attrType) a later constructor call is given: those of
\* the first call, the next offset, and another type
OpenArgs == {<<0, INTEGER>>, <<1, INTEGER>>, <<0, DOUBLE>>}

Next ==
    \/ \E key \in Keys : InsertEntry(key)
    \/ \E a \in ScanArgs : StartScan(a[1], a[2], a[3], a[4])
    \/ ScanNext
    \/ EndScan
    \/ Close
    \/ \E a \in OpenArgs : Reopen(a[1], a[2])

Spec == Init /\ [][Next]_vars

(***************************************************************************)
(* The scan engine on an index that stays open, with one startScan more,   *)
(* called while a scan is executing.                                       *)
(***************************************************************************)
NextRescan ==
    \/ \E key \in Keys : InsertEntry(key)
    \/ \E a \in ScanArgs : StartScan(a[1], a[2], a[3], a[4])
    \/ \E a \in ScanArgs : Restart(a[1], a[2], a[3], a[4])
    \/ ScanNext
    \/ EndScan

SpecRescan == Init /\ [][NextRescan]_vars

(***************************************************************************)
(* A caller that builds the index, starts one scan and then calls scanNext *)
(* until it throws: nothing else is called while the scan is executing,    *)
(* and the caller does not stop calling scanNext before it has thrown.     *)
(***************************************************************************)
NextScanLoop ==
    \/ \E key \in Keys : ~scanExecuting /\ nScans = 0 /\ InsertEntry(key)
    \/ \E a \in ScanArgs : StartScan(a[1], a[2], a[3], a[4])
    \/ scanExecuting /\ ScanNext

SpecScanLoop ==
    Init /\ [][NextScanLoop]_vars /\ WF_vars(scanExecuting /\ ScanNext)

(***************************************************************************)
(* The index seen from outside: the entries inserted into the open file,   *)
(* the tree below the in-memory root, the chain of leaves.                 *)
(***************************************************************************)
\* the RecordIds inserted into the open index; RecordId r carries the key
\* hist[file][r]
Rids == 1..Len(hist[file])

KeyOf(rid) == hist[file][rid]

\* whether key k satisfies both bounds of the scan
InRange(k) == compareOp(k, lowValInt, lowOp) /\ compareOp(k, highValInt, highOp)

\* a scan that was started on the index as it is now and has returned all
\* it returns: startScan found nothing, or scanNext ran past the last match
ScanFinished == open /\ scanExecuting /\ nextEntry = -1 /\ scanFresh

LeafPages(pgs) == {p \in 1..Len(pgs) : pgs[p].kind = "leaf"}

\* the keys of a leaf, in slot order
LeafKeys(leaf) == [i \in 1..LeafCount(leaf) |-> leaf.keyArray[i - 1]]

\* the child page ids of a node: pageNoArray up to the first invalid id
Children(node) ==
    {node.pageNoArray[i] : i \in {j \in 0..nodeOccupancy :
                                    \A h \in 0..j : node.pageNoArray[h] # INVALID_NUMBER}}

RECURSIVE LeftmostLeaf(_, _)
LeftmostLeaf(pgs, n) ==
    IF pgs[n].level = 1 THEN pgs[n].pageNoArray[0]
    ELSE LeftmostLeaf(pgs, pgs[n].pageNoArray[0])

\* the leaf page ids met by following rightSibPageNo from p, at most fuel of them
RECURSIVE Chain(_, _, _)
Chain(pgs, p, fuel) ==
    IF p = INVALID_NUMBER \/ fuel = 0 THEN <<>>
    ELSE <<p>> \o Chain(pgs, pgs[p].rightSibPageNo, fuel - 1)

RECURSIVE ChainKeys(_, _)
ChainKeys(pgs, chain) ==
    IF chain = <<>> THEN <<>>
    ELSE LeafKeys(pgs[Head(chain)]) \o ChainKeys(pgs, Tail(chain))

NonDecreasing(s) == \A i, j \in 1..Len(s) : i < j => s[i] <= s[j]

\* the leaves below node n, each with the number of nodes on the way to it
RECURSIVE LeavesBelow(_, _, _)
LeavesBelow(pgs, n, depth) ==
    IF pgs[n].level = 1
    THEN {<<c, depth + 1>> : c \in Children(pgs[n])}
    ELSE UNION {LeavesBelow(pgs, c, depth + 1) : c \in Children(pgs[n])}

(***************************************************************************)
(* C1.  A scan returns exactly the RecordIds whose keys satisfy both       *)
(* bounds: every inserted (key, rid) in range is returned once, and        *)
(* nothing out of range is returned.                                       *)
(***************************************************************************)
ScanReturnsExactlyTheRange ==
    ScanFinished =>
        /\ \A i, j \in 1..Len(yielded) : i # j => yielded[i] # yielded[j]
        /\ {yielded[i] : i \in 1..Len(yielded)} = {r \in Rids : InRange(KeyOf(r))}

(***************************************************************************)
(* C2.  The RecordIds of a scan are returned in non-decreasing key order.  *)
(***************************************************************************)
ScanReturnsKeysInOrder ==
    (open /\ scanFresh) =>
        NonDecreasing([i \in 1..Len(yielded) |-> KeyOf(yielded[i])])

(***************************************************************************)
(* C3.  Walking rightSibPageNo from the leftmost leaf visits every leaf    *)
(* exactly once, ends at the invalid page id, and meets the keys in        *)
(* non-decreasing order.                                                   *)
(***************************************************************************)
LeafChainIsOrdered ==
    open =>
        LET chain == Chain(pages, LeftmostLeaf(pages, rootPageNum), Len(pages) + 1)
        IN  /\ Len(chain) = Cardinality(LeafPages(pages))
            /\ {chain[i] : i \in 1..Len(chain)} = LeafPages(pages)
            /\ NonDecreasing(ChainKeys(pages, chain))

(***************************************************************************)
(* C4.  Every leaf is reachable from the root by following pageNoArray     *)
(* entries, and all leaves are at the same depth.                          *)
(***************************************************************************)
EveryLeafReachableAtOneDepth ==
    open =>
        LET below == LeavesBelow(pages, rootPageNum, 0)
        IN  /\ {l[1] : l \in below} = LeafPages(pages)
            /\ \A a, b \in below : a[2] = b[2]

\* the keys stored in the leaves below page p (p itself when it is a leaf)
RECURSIVE SubtreeKeys(_, _)
SubtreeKeys(pgs, p) ==
    IF pgs[p].kind = "leaf"
    THEN {pgs[p].keyArray[i] : i \in 0..(LeafCount(pgs[p]) - 1)}
    ELSE UNION {SubtreeKeys(pgs, c) : c \in Children(pgs[p])}

\* the internal nodes of the tree below node n, n included
RECURSIVE NodesBelow(_, _)
NodesBelow(pgs, n) ==
    IF pgs[n].level = 1 THEN {n}
    ELSE {n} \cup UNION {NodesBelow(pgs, c) : c \in Children(pgs[n])}

(***************************************************************************)
(* C5.  For every internal node with m valid keys, every key stored in     *)
(* the subtree of child i is <= keys[i] for i < m, and every key stored    *)
(* in the subtree of the last child m is > keys[m-1].                      *)
(***************************************************************************)
SeparatorsBoundTheSubtrees ==
    open =>
        \A n \in NodesBelow(pages, rootPageNum) :
            LET node == pages[n]
                m == NodeCount(node)
            IN  /\ \A i \in 0..(m - 1) :
                      \A k \in SubtreeKeys(pages, node.pageNoArray[i]) :
                          k <= node.keyArray[i]
                /\ m > 0 => \A k \in SubtreeKeys(pages, node.pageNoArray[m]) :
                                k > node.keyArray[m - 1]

(***************************************************************************)
(* C6.  At the return of every public operation the root page id stored    *)
(* in the header page equals the in-memory rootPageNum.                    *)
(***************************************************************************)
HeaderRootIsRootPageNum == open => HeaderRoot = rootPageNum

\* the object was constructed on an index file that existed, and no
\* insertEntry was called on it
Reopened == open /\ nReopens > 0 /\ ~created /\ ~insertedSinceOpen

\* the scan (k, GTE, k, LTE)
PointScan == lowOp = GTE /\ highOp = LTE /\ lowValInt = highValInt

(***************************************************************************)
(* C7.  After the index is closed and opened again with the same relation  *)
(* name, attribute offset and type, the point scan (k, GTE, k, LTE) of an  *)
(* inserted key k succeeds and returns the RecordIds inserted with key k.  *)
(***************************************************************************)
RoundTripFindsEveryKey ==
    (Reopened /\ ScanFinished /\ PointScan /\ \E r \in Rids : KeyOf(r) = lowValInt)
        => {yielded[i] : i \in 1..Len(yielded)} = {r \in Rids : KeyOf(r) = lowValInt}

(***************************************************************************)
(* C8 as stated.  After the index of attribute offset 0 was built and      *)
(* closed, opening it with the same relation name and the next offset      *)
(* fails with BAD_INDEX_INFO and leaves the header page unpinned.          *)
(***************************************************************************)
ReopenAtNextOffsetIsRejected ==
    [][Reopen(1, INTEGER) => (err' = "BAD_INDEX_INFO" /\ pinCnt' = NoPins)]_vars

(***************************************************************************)
(* C8, amended.  The attribute offset is part of the index file name, so   *)
(* opening with the next offset names another file: the constructor        *)
(* creates and builds that index when it does not exist and raises         *)
(* nothing.  BAD_INDEX_INFO is raised, with the header page unpinned and   *)
(* the file unchanged, when the stored metadata of the file that exists    *)
(* differs from the arguments (here, the attribute type).  Opening with    *)
(* the arguments the index was built with succeeds without rebuilding and  *)
(* takes the root page id from the header page.                            *)
(***************************************************************************)
OpenValidatesStoredMetadata ==
    [][/\ Reopen(1, INTEGER) =>
            /\ err' = "none" /\ open'
            /\ file' = IndexName(RelationName, 1)
            /\ created' = (IndexName(RelationName, 1) \notin DOMAIN fs)
            /\ pinCnt' = NoPins
       /\ Reopen(0, DOUBLE) =>
            /\ err' = "BAD_INDEX_INFO" /\ ~open'
            /\ log' = <<Pin(1), UnPin(1, FALSE)>>
            /\ pinCnt' = NoPins
            /\ fs' = fs
       /\ Reopen(0, INTEGER) =>
            /\ err' = "none" /\ open' /\ ~created'
            /\ file' = IndexName(RelationName, 0)
            /\ fs' = fs
            /\ rootPageNum' = fs[IndexName(RelationName, 0)][1].rootPageNo
            /\ pinCnt' = NoPins]_vars

\* the constructor was called with the next offset and created that index
OpenedAtNextOffset ==
    /\ lastOp = "open" /\ nReopens > 0 /\ err = "none" /\ created
    /\ file = IndexName(RelationName, 1)
    /\ IndexName(RelationName, 0) \in DOMAIN fs

(***************************************************************************)
(* C9.  When insertEntry returns, every page's pin count equals its value  *)
(* before the call, whether no split, a leaf split, internal splits or     *)
(* root growth occurred; findLeafPageNum returns with no page pinned by    *)
(* it.                                                                     *)
(***************************************************************************)
InsertAndDescentArePinNeutral ==
    /\ lastOp = "insertEntry" =>
          /\ \A p \in 0..Len(pages) : Net(log, Len(log), p) = 0
          /\ ~badUnpin
    /\ open =>
          \A val \in Keys, op \in {GT, GTE} :
              LET d == findLeafPageNum(pages, rootPageNum, val, op).log
              IN  /\ \A p \in 0..Len(pages) : Net(d, Len(d), p) = 0
                  /\ ~BadUnpinIn(pinCnt, d)

\* an insertEntry that split a leaf and the root and grew a new root
InsertGrewTheRoot ==
    /\ lastOp = "insertEntry"
    /\ rootPageNum = Len(pages)
    /\ \E i \in 1..Len(log) : log[i] = Pin(rootPageNum)
    /\ Cardinality({i \in 1..Len(log) : log[i].ev = "pin"}) >= 5

(***************************************************************************)
(* C10.  While a scan is active and not exhausted, between public calls    *)
(* the scan holds exactly one pin, on the current leaf; crossing to a      *)
(* right sibling unpins the old leaf before it pins the sibling, so the    *)
(* scan never holds two pins at once.                                      *)
(***************************************************************************)
ScanHoldsOnePin ==
    /\ (open /\ scanExecuting /\ nextEntry # -1) => pinCnt = (currentPageNum :> 1)
    /\ lastOp \in {"startScan", "scanNext"} => peakPins <= 1
    /\ lastOp = "scanNext" =>
          \A i \in 1..Len(log) :
              log[i].ev = "pin" =>
                  /\ i > 1
                  /\ log[i - 1].ev = "unpin"
                  /\ pages[log[i - 1].page].rightSibPageNo = log[i].page

\* a scanNext that crossed to a right sibling and found the next entry there
ScanCrossedToSibling ==
    /\ lastOp = "scanNext" /\ err = "none"
    /\ scanExecuting /\ nextEntry # -1
    /\ \E i \in 1..Len(log) : log[i] = Pin(currentPageNum)

(***************************************************************************)
(* C11.  No double unpin: whatever public operations are called, the ones  *)
(* that raise included, unPinPage is never called on a page whose pin      *)
(* count is zero, and never with the invalid page id.                      *)
(***************************************************************************)
NoDoubleUnpin == ~badUnpin

\* endScan on a scan that holds no leaf (startScan found no key, or
\* scanNext ran past the last match): it makes no unPinPage call
EndScanOfExhaustedScan ==
    /\ lastOp = "endScan" /\ err = "none"
    /\ log = <<>>
    /\ pinCnt = NoPins

(***************************************************************************)
(* C12.  scanNext and endScan called while no scan is executing (none was  *)
(* started, or the last one was ended) raise SCAN_NOT_INITIALIZED and      *)
(* leave the scan state and every pin count as they were.                  *)
(***************************************************************************)
ScanCallsWhileIdleAreRejected ==
    [][(~scanExecuting /\ (ScanNext \/ EndScan)) =>
            /\ err' = "SCAN_NOT_INITIALIZED"
            /\ UNCHANGED scanVars
            /\ log' = <<>>
            /\ pinCnt' = pinCnt]_vars

\* scanNext called after a scan that returned RecordIds was ended
ScanNextAfterEndScan ==
    /\ lastOp = "scanNext" /\ err = "SCAN_NOT_INITIALIZED"
    /\ ~scanExecuting
    /\ Len(yielded) > 0

(***************************************************************************)
(* C13.  startScan raises BAD_OPCODES exactly when the low operator is     *)
(* not GT or GTE or the high operator is not LT or LTE, whatever the       *)
(* bounds are (the check comes before the range check); the call then      *)
(* makes no buffer manager call and changes no scan member, so an index    *)
(* with no scan executing stays so, with no page pinned.                   *)
(***************************************************************************)
BadOpcodesAreRejectedFirst ==
    [][\A a \in ScanArgs :
          StartScan(a[1], a[2], a[3], a[4]) =>
              /\ (err' = "BAD_OPCODES")
                    <=> (a[2] \notin {GT, GTE} \/ a[4] \notin {LT, LTE})
              /\ err' = "BAD_OPCODES" =>
                    /\ UNCHANGED scanVars
                    /\ log' = <<>>
                    /\ pinCnt' = pinCnt
                    /\ ~scanExecuting => (~scanExecuting' /\ pinCnt' = NoPins)]_vars

\* startScan raised BAD_OPCODES on an index with no scan executing
BadOpcodesWhileIdle ==
    /\ lastOp = "startScan" /\ err = "BAD_OPCODES"
    /\ ~scanExecuting
    /\ pinCnt = NoPins

(***************************************************************************)
(* C14.  With valid operators, startScan raises BAD_SCAN_RANGE exactly     *)
(* when the low bound is greater than the high bound; equal bounds are     *)
(* accepted for every operator pair.  The call that raises it pins no      *)
(* page and changes no scan member, so an index with no scan executing     *)
(* stays so.                                                               *)
(***************************************************************************)
BadRangeIsLowAboveHigh ==
    [][\A a \in ScanArgs :
          (a[2] \in {GT, GTE} /\ a[4] \in {LT, LTE}
             /\ StartScan(a[1], a[2], a[3], a[4])) =>
              /\ (err' = "BAD_SCAN_RANGE") <=> (a[1] > a[3])
              /\ err' = "BAD_SCAN_RANGE" =>
                    /\ UNCHANGED scanVars
                    /\ log' = <<>>
                    /\ pinCnt' = pinCnt
                    /\ ~scanExecuting => (~scanExecuting' /\ pinCnt' = NoPins)]_vars

\* startScan raised BAD_SCAN_RANGE on an index with no scan executing
BadRangeWhileIdle ==
    /\ lastOp = "startScan" /\ err = "BAD_SCAN_RANGE"
    /\ ~scanExecuting
    /\ pinCnt = NoPins

(***************************************************************************)
(* C15.  With valid operators and low bound <= high bound, startScan       *)
(* raises NO_SUCH_KEY if and only if no inserted key satisfies both        *)
(* bounds: it raises it on an empty tree, and it succeeds whenever an      *)
(* inserted key is in range.                                               *)
(***************************************************************************)
NoSuchKeyIffNothingInRange ==
    (open /\ lastOp = "startScan" /\ err \in {"none", "NO_SUCH_KEY"}) =>
        ((err = "NO_SUCH_KEY") <=> ~ \E r \in Rids : InRange(KeyOf(r)))

(***************************************************************************)
(* C16.  Scan exhaustion: a scanNext called while the scan has a next      *)
(* entry returns a RecordId and does not fail, the call that returns the   *)
(* last one included; once the scan is exhausted every scanNext raises     *)
(* SCAN_COMPLETED (not SCAN_NOT_INITIALIZED), returns no RecordId and      *)
(* changes nothing, and the scan stays exhausted until endScan, a new      *)
(* startScan or the destructor.                                            *)
(***************************************************************************)
ExhaustedScanReportsCompleted ==
    [][/\ (scanExecuting /\ nextEntry # -1 /\ ScanNext) =>
            /\ err' = "none"
            /\ Len(yielded') = Len(yielded) + 1
       /\ (scanExecuting /\ nextEntry = -1 /\ ScanNext) =>
            /\ err' = "SCAN_COMPLETED"
            /\ yielded' = yielded
            /\ log' = <<>>
            /\ UNCHANGED scanVars
       /\ (scanExecuting /\ nextEntry = -1
             /\ lastOp' \notin {"endScan", "startScan", "close"}) =>
            (scanExecuting' /\ nextEntry' = -1)]_vars

\* the scanNext after the one that returned the last RecordId of the scan
ScanNextAfterLastRid ==
    /\ lastOp = "scanNext" /\ err = "SCAN_COMPLETED"
    /\ scanExecuting
    /\ Len(yielded) > 0

\* what a startScan called with the arguments a on an executing scan leaves
\* when it ended that scan: the leaf the scan held was unpinned first, the
\* only pin left is the new scan's, the bounds are those of a and the
\* RecordIds returned start anew
PreviousScanEnded(a) ==
    /\ currentPageNum # INVALID_NUMBER =>
          (Len(log') > 0 /\ log'[1] = UnPin(currentPageNum, FALSE))
    /\ pinCnt' = IF err' = "none" THEN (currentPageNum' :> 1) ELSE NoPins
    /\ err' # "none" => (nextEntry' = -1 /\ currentPageNum' = INVALID_NUMBER)
    /\ lowValInt' = a[1] /\ lowOp' = a[2] /\ highValInt' = a[3] /\ highOp' = a[4]
    /\ yielded' = <<>>

(***************************************************************************)
(* C17 as stated.  A startScan called while a scan is executing and holds  *)
(* a leaf ends that scan: the leaf it holds is unpinned, and its position  *)
(* and bounds are discarded.                                               *)
(***************************************************************************)
StartScanEndsTheExecutingScan ==
    [][\A a \in ScanArgs :
          (currentPageNum # INVALID_NUMBER /\ Restart(a[1], a[2], a[3], a[4]))
              => PreviousScanEnded(a)]_vars

(***************************************************************************)
(* C17, amended.  A startScan called while a scan is executing with valid  *)
(* operators and low bound <= high bound ends that scan: the leaf it       *)
(* holds is unpinned before the descent, and its position and bounds are   *)
(* replaced.  A call that raises BAD_OPCODES or BAD_SCAN_RANGE is          *)
(* rejected before the executing scan is touched: that scan goes on with   *)
(* its leaf pinned, its position and its bounds.                           *)
(***************************************************************************)
ValidStartScanEndsTheExecutingScan ==
    [][\A a \in ScanArgs :
          Restart(a[1], a[2], a[3], a[4]) =>
              IF a[2] \in {GT, GTE} /\ a[4] \in {LT, LTE} /\ a[1] <= a[3]
              THEN PreviousScanEnded(a)
              ELSE /\ err' \in {"BAD_OPCODES", "BAD_SCAN_RANGE"}
                   /\ UNCHANGED scanVars
                   /\ log' = <<>>
                   /\ pinCnt' = pinCnt
                   /\ yielded' = yielded]_vars

\* a startScan that unpinned the leaf of the executing scan and found the
\* first entry of the new one
ScanRestartedFromPinnedLeaf ==
    /\ lastOp = "startScan" /\ err = "none"
    /\ nScans = MaxScans + 1
    /\ Len(log) > 0 /\ log[1].ev = "unpin"
    /\ pinCnt = (currentPageNum :> 1)

(***************************************************************************)
(* C18.  Close: after any sequence of operations the destructor ends an    *)
(* executing scan before it flushes the file, so that no page of the file  *)
(* is pinned at the flush; it raises nothing, whether a scan is executing  *)
(* or not, and makes no unPinPage call on a page that is not pinned.       *)
(***************************************************************************)
CloseLeavesNoPagePinned ==
    lastOp = "close" =>
        /\ err = "none"
        /\ pinCnt = NoPins
        /\ ~badUnpin
        /\ Len(log) <= 1

\* the destructor ran on a scan that held a leaf, and unpinned it
CloseEndedTheScan ==
    /\ lastOp = "close" /\ ~open
    /\ Len(log) = 1 /\ log[1].ev = "unpin" /\ log[1].page # INVALID_NUMBER

(***************************************************************************)
(* C19.  Empty tree and first insert: the index created over an empty      *)
(* relation has a root node at level 1 with exactly one valid child, an    *)
(* empty leaf whose right sibling is the invalid page id; after the first  *)
(* insertEntry the tree is still that root with that single leaf, which    *)
(* holds exactly the inserted pair.                                        *)
(***************************************************************************)
FirstInsertFillsTheSingleLeaf ==
    (open /\ relation = <<>> /\ Len(hist[file]) <= 1) =>
        /\ Len(pages) = 3 /\ rootPageNum = 2
        /\ pages[2].kind = "node" /\ pages[2].level = 1
        /\ pages[2].pageNoArray[0] = 3
        /\ \A i \in 1..nodeOccupancy : pages[2].pageNoArray[i] = INVALID_NUMBER
        /\ pages[3].kind = "leaf" /\ pages[3].rightSibPageNo = INVALID_NUMBER
        /\ \A i \in 0..(leafOccupancy - 1) :
              IF i < Len(hist[file])
              THEN pages[3].ridArray[i] = i + 1 /\ pages[3].keyArray[i] = KeyOf(i + 1)
              ELSE pages[3].ridArray[i] = INVALID_NUMBER

\* the first insertEntry on the index created over an empty relation
FirstInsertIntoEmptyTree ==
    /\ open /\ relation = <<>>
    /\ lastOp = "insertEntry"
    /\ Len(hist[file]) = 1
    /\ pages[3].keyArray[0] = KeyOf(1)

\* the valid children of a node, left to right
ChildSeq(node) ==
    [i \in 1..Cardinality({j \in 0..nodeOccupancy :
                             \A h \in 0..j : node.pageNoArray[h] # INVALID_NUMBER})
        |-> node.pageNoArray[i - 1]]

\* the valid keys of a node, left to right
KeySeq(node) == [i \in 1..NodeCount(node) |-> node.keyArray[i - 1]]

\* the sequence s with x put after its first i elements
InsertAt(s, i, x) == SubSeq(s, 1, i) \o <<x>> \o SubSeq(s, i + 1, Len(s))

\* r is a split of node on the arrival of the pair pk at position pos that
\* loses and duplicates no child, keeps the order and pushes the median up
SplitConserves(node, pk, pos, r) ==
    /\ ~r.ok
    /\ ChildSeq(r.node) \o ChildSeq(r.split)
          = InsertAt(ChildSeq(node), pos + 1, pk.pageNo)
    /\ KeySeq(r.node) \o <<r.pk.key>> \o KeySeq(r.split)
          = InsertAt(KeySeq(node), pos, pk.key)

(***************************************************************************)
(* C20.  Internal split conserves children and pushes the median up: when  *)
(* a pushed-up pair (p, k) arrives at a full internal node N, N is split   *)
(* into N and a new node N' whose valid children together are the former   *)
(* children of N plus p, none lost, none duplicated, in the same order,    *)
(* and the key pushed to the parent is a valid key of neither.  Stated     *)
(* for every full node of the tree the index has built and every key k     *)
(* that can arrive with the page p allocated next.                         *)
(***************************************************************************)
InternalSplitConservesChildren ==
    open =>
        \A n \in NodesBelow(pages, rootPageNum) :
            NodeCount(pages[n]) = nodeOccupancy =>
                \A k \in Keys :
                    SplitConserves(pages[n], [pageNo |-> Len(pages) + 1, key |-> k],
                                   NodePos(pages[n], k),
                                   insertPageKeyPair(pages[n],
                                                     [pageNo |-> Len(pages) + 1,
                                                      key |-> k],
                                                     Len(pages) + 2))

\* the entries of a leaf, in slot order, each as <<key, rid>>
Entries(leaf) ==
    [i \in 1..LeafCount(leaf) |-> <<leaf.keyArray[i - 1], leaf.ridArray[i - 1]>>]

\* the elements of a sequence
Range(s) == {s[i] : i \in 1..Len(s)}

\* r is a split of the full leaf on the arrival of the pair rk, with the new
\* leaf allocated as page splitPageNum: the new leaf is linked in after the
\* old one, the entries and the new pair are shared out in key order with
\* none lost or duplicated, and the first key of the new leaf is copied up
LeafSplitCopiesUp(leaf, rk, splitPageNum, r) ==
    /\ ~r.ok
    /\ r.split.rightSibPageNo = leaf.rightSibPageNo
    /\ r.leaf.rightSibPageNo = splitPageNum
    /\ Len(Entries(r.leaf)) + Len(Entries(r.split)) = leafOccupancy + 1
    /\ Range(Entries(r.leaf)) \cup Range(Entries(r.split))
          = Range(Entries(leaf)) \cup {<<rk.key, rk.rid>>}
    /\ \A a \in Range(Entries(r.leaf)), b \in Range(Entries(r.split)) : a[1] <= b[1]
    /\ NonDecreasing(LeafKeys(r.leaf)) /\ NonDecreasing(LeafKeys(r.split))
    /\ LeafCount(r.split) >= 1
    /\ r.pk = [pageNo |-> splitPageNum, key |-> r.split.keyArray[0]]

\* the step is an insertEntry of the pair rk that reached the full leaf page
\* l, and left it and the page allocated first as insertRIDKeyPair returned
\* them in r
LeafSplitStep(l, rk, r) ==
    /\ pages'[l] = r.leaf
    /\ pages'[Len(pages) + 1] = r.split
    /\ LeafSplitCopiesUp(pages[l], rk, Len(pages) + 1, r)

(***************************************************************************)
(* C21.  Leaf split (copy-up): when insertEntry reaches a full leaf L, a   *)
(* new leaf L' is allocated; the right sibling of L' is the former right   *)
(* sibling of L and the right sibling of L is L'; the entries of L and     *)
(* the new pair are shared out between L and L', none lost or duplicated,  *)
(* every key of L <= every key of L'; the separator handed to the parent   *)
(* is the first key of L', which stays stored in L'.                       *)
(***************************************************************************)
LeafSplitIsCopyUp ==
    [][(open /\ lastOp' = "insertEntry") =>
        \A l \in 1..Len(pages) :
          (/\ pages[l].kind = "leaf"
           /\ LeafCount(pages[l]) = leafOccupancy
           /\ pages'[l] # pages[l]) =>
              LeafSplitStep(l,
                            [rid |-> Len(hist[file]) + 1,
                             key |-> hist'[file][Len(hist[file]) + 1]],
                            insertRIDKeyPair(pages[l],
                                             [rid |-> Len(hist[file]) + 1,
                                              key |-> hist'[file][Len(hist[file]) + 1]],
                                             Len(pages) + 1))]_vars

\* an insertEntry that split a leaf: it pinned a leaf and then the page it
\* allocated, which is that leaf's right sibling now
InsertSplitALeaf ==
    /\ lastOp = "insertEntry"
    /\ \E i \in 1..(Len(log) - 1) :
          /\ log[i].ev = "pin" /\ log[i + 1].ev = "pin"
          /\ pages[log[i].page].kind = "leaf"
          /\ pages[log[i].page].rightSibPageNo = log[i + 1].page

RECURSIVE ChainEntries(_, _)
\* the entries of the leaves of a chain, in chain and slot order
ChainEntries(pgs, chain) ==
    IF chain = <<>> THEN <<>>
    ELSE Entries(pgs[Head(chain)]) \o ChainEntries(pgs, Tail(chain))

\* in the sequence of entries e, entries with equal keys are in the order
\* of their RecordIds, which is the order of their insertion
EqualKeysInInsertionOrder(e) ==
    \A i, j \in 1..Len(e) : (i < j /\ e[i][1] = e[j][1]) => e[i][2] < e[j][2]

(***************************************************************************)
(* C22.  Duplicate tie-break: a pair whose key equals keys already in the  *)
(* tree is placed after every entry with that key in leaf-chain order, so  *)
(* that a scan returns the RecordIds of equal keys in their insertion      *)
(* order, also when the equal keys straddle a leaf split.                  *)
(***************************************************************************)
DuplicatesKeepInsertionOrder ==
    open =>
        /\ EqualKeysInInsertionOrder(
               ChainEntries(pages, Chain(pages, LeftmostLeaf(pages, rootPageNum),
                                         Len(pages) + 1)))
        /\ scanFresh =>
               \A i, j \in 1..Len(yielded) :
                   (i < j /\ KeyOf(yielded[i]) = KeyOf(yielded[j]))
                       => yielded[i] < yielded[j]

\* the child c_i of a node for the smallest i whose separator k_i satisfies
\* k_i op v, or the last valid child if no separator does
DescentChild(node, v, op) ==
    LET q == {i \in 0..(NodeCount(node) - 1) : compareOp(node.keyArray[i], v, op)}
    IN  node.pageNoArray[IF q = {} THEN NodeCount(node) ELSE Min(q)]

\* in the calls lg of an insertEntry of key v on the file pgs, every page
\* read from an internal node is the child DescentChild names
DescentFollows(pgs, lg, v, op) ==
    \A i \in 1..(Len(lg) - 1) :
        (/\ lg[i].ev = "pin" /\ lg[i + 1].ev = "pin"
         /\ lg[i].page <= Len(pgs)
         /\ pgs[lg[i].page].kind = "node")
            => lg[i + 1].page = DescentChild(pgs[lg[i].page], v, op)

(***************************************************************************)
(* C23 as stated.  During insertEntry, at every internal node the descent  *)
(* for key v uses GTE: it enters child c_i for the smallest i whose        *)
(* separator k_i >= v, or the last valid child if no separator qualifies.  *)
(***************************************************************************)
InsertDescentUsesGTE ==
    [][(open /\ lastOp' = "insertEntry") =>
          DescentFollows(pages, log', hist'[file][Len(hist[file]) + 1], GTE)]_vars

(***************************************************************************)
(* C23, amended.  During insertEntry, at every internal node the descent   *)
(* for key v uses GT: it enters child c_i for the smallest i whose         *)
(* separator k_i > v, or the last valid child if no separator qualifies,   *)
(* so that a key equal to a separator goes to the right of it.             *)
(***************************************************************************)
InsertDescentUsesGT ==
    [][(open /\ lastOp' = "insertEntry") =>
          DescentFollows(pages, log', hist'[file][Len(hist[file]) + 1], GT)]_vars

\* an insertEntry without a split whose key equals a separator of the root:
\* it went into the child right of that separator
InsertOfASeparatorKey ==
    /\ lastOp = "insertEntry"
    /\ Len(log) = 4
    /\ log[2].page = DescentChild(pages[rootPageNum], KeyOf(Len(hist[file])), GT)
    /\ log[2].page # DescentChild(pages[rootPageNum], KeyOf(Len(hist[file])), GTE)

\* the node pages of the tree below page p, found by the kind of the pages
RECURSIVE NodePagesBelow(_, _)
NodePagesBelow(pgs, p) ==
    IF pgs[p].kind = "leaf" THEN {}
    ELSE {p} \cup UNION {NodePagesBelow(pgs, c) : c \in Children(pgs[p])}

\* every internal node of the tree has level 1 exactly if its children are leaves
LevelOneIffChildrenAreLeaves(pgs, root) ==
    \A n \in NodePagesBelow(pgs, root) :
        /\ (pgs[n].level = 1) <=> (\A c \in Children(pgs[n]) : pgs[c].kind = "leaf")
        /\ (pgs[n].level # 1) <=> (\A c \in Children(pgs[n]) : pgs[c].kind = "node")

\* the numbers of nodes on the ways from the root down to the leaves
Depths(pgs, root) == {l[2] : l \in LeavesBelow(pgs, root, 0)}

\* the new root is a new page at level 0 that holds the old root, the
\* pushed-up key and the pushed-up page and nothing else
NewRootHolds(node, oldRoot, pushed) ==
    /\ node.kind = "node"
    /\ node.level = 0
    /\ node.pageNoArray[0] = oldRoot
    /\ node.keyArray[0] = pushed.key
    /\ node.pageNoArray[1] = pushed.pageNo
    /\ NodeCount(node) = 1
    /\ \A i \in 2..nodeOccupancy : node.pageNoArray[i] = INVALID_NUMBER

\* the root growth of an insertEntry step, a being what insertEntryAux on
\* the old root returned
RootGrowth(a) ==
    /\ ~a.ok
    /\ rootPageNum' = Len(a.pages) + 1
    /\ rootPageNum' = Len(pages')
    /\ rootPageNum' > Len(pages)
    /\ a.pk.pageNo = Len(a.pages)
    /\ NewRootHolds(pages'[rootPageNum'], rootPageNum, a.pk)
    /\ LevelOneIffChildrenAreLeaves(pages', rootPageNum')
    /\ Depths(pages', rootPageNum') = {d + 1 : d \in Depths(pages, rootPageNum)}

(***************************************************************************)
(* C24.  Root growth: when the insert in the root returns a push-up        *)
(* (p, k), insertEntry allocates a new root at level 0 whose child[0] is   *)
(* the old root, whose only key is k and whose child[1] is p, and sets     *)
(* rootPageNum to the new page; afterwards every internal node has level 1 *)
(* if and only if its children are leaves, and every leaf of the tree is   *)
(* exactly one node deeper than before.  Without a push-up the root page   *)
(* id stays.                                                               *)
(***************************************************************************)
RootGrowsByOneLevel ==
    [][(open /\ lastOp' = "insertEntry") =>
          /\ (insertEntryAux(pages, rootPageNum,
                             [rid |-> Len(hist[file]) + 1,
                              key |-> hist'[file][Len(hist[file]) + 1]]).ok
                 <=> rootPageNum' = rootPageNum)
          /\ (rootPageNum' # rootPageNum) =>
                 RootGrowth(insertEntryAux(pages, rootPageNum,
                                           [rid |-> Len(hist[file]) + 1,
                                            key |-> hist'[file][Len(hist[file]) + 1]]))]_vars

\* an insertEntry that split the root and made a new root over two nodes
InsertMadeANewRootOverTwoNodes ==
    /\ lastOp = "insertEntry"
    /\ log[1].page # rootPageNum
    /\ rootPageNum = Len(pages)
    /\ pages[rootPageNum].level = 0
    /\ pages[pages[rootPageNum].pageNoArray[0]].kind = "node"

\* the pinned pages after one more call e, the page pinned last at the end;
\* an unPinPage of another page than the one pinned last leaves the invalid id
Push(s, e) ==
    IF e.ev = "pin" THEN Append(s, e.page)
    ELSE IF s # <<>> /\ s[Len(s)] = e.page THEN SubSeq(s, 1, Len(s) - 1)
    ELSE Append(s, INVALID_NUMBER)

\* the pages pinned after the first n calls of lg, in the order of their pins
RECURSIVE PinStack(_, _)
PinStack(lg, n) == IF n = 0 THEN <<>> ELSE Push(PinStack(lg, n - 1), lg[n])

\* the tree level of page p, counted from the leaves (a leaf has 0)
RECURSIVE HeightOf(_, _)
HeightOf(pgs, p) ==
    IF pgs[p].kind = "leaf" THEN 0 ELSE 1 + HeightOf(pgs, pgs[p].pageNoArray[0])

\* no two of the pinned pages s are on one tree level
OnePinPerLevel(pgs, s) ==
    \A j, k \in 1..Len(s) : j < k => HeightOf(pgs, s[j]) # HeightOf(pgs, s[k])

\* the pinned pages s are a path from the root downwards of pages that
\* existed before the insert (the first old pages of the file), with at most
\* one page allocated by the insert on top: the new sibling of the page
\* under it, or the new root with nothing else pinned
PathAndNewSibling(pgs, s, old, root) ==
    /\ \A j \in 1..Len(s) : s[j] # INVALID_NUMBER
    /\ \A j \in 1..(Len(s) - 1) :
          /\ s[j] <= old
          /\ s[j + 1] <= old => HeightOf(pgs, s[j + 1]) = HeightOf(pgs, s[j]) - 1
          /\ s[j + 1] > old => HeightOf(pgs, s[j + 1]) = HeightOf(pgs, s[j])
    /\ (Len(s) = 1 /\ s[1] > old) => s[1] = root

(***************************************************************************)
(* C25 as stated.  During a single insertEntry, at every moment at most    *)
(* one page per tree level is pinned by the insert, including while a leaf *)
(* or internal node is being split and while a new root is being created.  *)
(***************************************************************************)
InsertPinsOnePagePerLevel ==
    (open /\ lastOp = "insertEntry") =>
        \A n \in 0..Len(log) : OnePinPerLevel(pages, PinStack(log, n))

(***************************************************************************)
(* C25, amended.  During a single insertEntry the pins of the insert form  *)
(* a stack: every unPinPage releases the page pinned last.  At every       *)
(* moment the pinned pages are a path from the old root downwards, one     *)
(* page per tree level, and while a leaf or internal node is being split   *)
(* the newly allocated sibling is pinned on top of it, so that this one    *)
(* level holds two pinned pages and no level holds more; the child of a    *)
(* node is unpinned before the node is split, and the old root is unpinned *)
(* before the new root is allocated, which is then the only pinned page.   *)
(* When insertEntry returns nothing is pinned by it.                       *)
(***************************************************************************)
InsertPinsAreAPathAndANewSibling ==
    [][(open /\ lastOp' = "insertEntry") =>
          /\ \A n \in 0..Len(log') :
                PathAndNewSibling(pages', PinStack(log', n), Len(pages), rootPageNum')
          /\ PinStack(log', Len(log')) = <<>>]_vars

\* an insertEntry that had a leaf and its new sibling pinned, then an
\* internal node and its new sibling, then the new root alone
InsertPinnedTwoPagesOnALevel ==
    /\ lastOp = "insertEntry"
    /\ log[1].page # rootPageNum
    /\ PinStack(log, Len(log) - 1) = <<rootPageNum>>
    /\ \E n \in 1..Len(log) :
          /\ Len(PinStack(log, n)) = 3
          /\ HeightOf(pages, PinStack(log, n)[2]) = 0
          /\ HeightOf(pages, PinStack(log, n)[3]) = 0
    /\ \E n \in 1..Len(log) :
          /\ Len(PinStack(log, n)) = 2
          /\ HeightOf(pages, PinStack(log, n)[1]) = 1
          /\ HeightOf(pages, PinStack(log, n)[2]) = 1

\* every slot of the node past its k valid keys and k + 1 valid children is
\* a sentinel
NodeSentinels(node) ==
    /\ \A i \in (NodeCount(node) + 1)..nodeOccupancy :
          node.pageNoArray[i] = INVALID_NUMBER
    /\ \A i \in NodeCount(node)..(nodeOccupancy - 1) : node.keyArray[i] = 0

\* every slot of the leaf past its n valid entries is a sentinel
LeafSentinels(leaf) ==
    \A i \in LeafCount(leaf)..(leafOccupancy - 1) :
        leaf.ridArray[i] = INVALID_NUMBER /\ leaf.keyArray[i] = 0

(***************************************************************************)
(* C26.  Between public operations, in every internal node with k valid    *)
(* keys all child slots past index k hold the invalid page id and all key  *)
(* slots at index >= k hold 0, and in every leaf with n valid entries all  *)
(* RID slots at index >= n hold the invalid page id and all key slots at   *)
(* index >= n hold 0, also in both halves after a leaf split and after an  *)
(* internal split.                                                         *)
(***************************************************************************)
SlotsPastThePrefixAreSentinels ==
    open =>
        \A p \in 1..Len(pages) :
            /\ pages[p].kind = "node" => NodeSentinels(pages[p])
            /\ pages[p].kind = "leaf" => LeafSentinels(pages[p])

\* the same for the leaves alone
LeafSlotsPastThePrefixAreSentinels ==
    open =>
        \A p \in 1..Len(pages) : pages[p].kind = "leaf" => LeafSentinels(pages[p])

\* the leaf pages on which one call of updateScanEntry, from the pinned leaf
\* cur and entry index ne, read an entry whose key fails the lower bound
RECURSIVE SkippedLeaves(_, _, _, _)
SkippedLeaves(pgs, cur, ne, sc) ==
    LET leaf == pgs[cur]
        n1 == ne + 1
        atEnd == n1 >= leafOccupancy \/ leaf.ridArray[n1] = INVALID_NUMBER
    IN  IF atEnd /\ leaf.rightSibPageNo = INVALID_NUMBER
        THEN {}
        ELSE
          LET cur2 == IF atEnd THEN leaf.rightSibPageNo ELSE cur
              n2 == IF atEnd THEN 0 ELSE n1
          IN  IF ~compareOp(pgs[cur2].keyArray[n2], sc.lowValInt, sc.lowOp)
              THEN {cur2} \cup SkippedLeaves(pgs, cur2, n2, sc)
              ELSE {}

\* the leaves on which the updateScanEntry of this step skipped an entry,
\* first being the leaf the descent of the scan returned
SkippedInStep(first) ==
    IF lastOp' = "startScan"
    THEN IF first = INVALID_NUMBER THEN {}
         ELSE SkippedLeaves(pages, first, -1,
                            [lowValInt |-> lowValInt', lowOp |-> lowOp'])
    ELSE SkippedLeaves(pages, currentPageNum, nextEntry,
                       [lowValInt |-> lowValInt, lowOp |-> lowOp])

(***************************************************************************)
(* C27.  In a scan over a tree built by inserts, an entry whose key fails  *)
(* the lower bound is only ever read on the first leaf visited, the leaf   *)
(* findLeafPageNum returned at startScan; every entry read on a later leaf *)
(* of the same scan satisfies the lower bound.                             *)
(***************************************************************************)
LowerBoundFailsOnlyOnFirstLeaf ==
    [][(/\ open /\ scanFresh'
        /\ \/ lastOp' = "startScan" /\ err' \in {"none", "NO_SUCH_KEY"}
           \/ lastOp' = "scanNext" /\ err' = "none") =>
          SkippedInStep(findLeafPageNum(pages, rootPageNum, lowValInt', lowOp').page)
            \subseteq {findLeafPageNum(pages, rootPageNum, lowValInt', lowOp').page}]_vars

\* following rightSibPageNo from any leaf never comes back to a leaf met before
SiblingChainIsAcyclic ==
    open =>
        \A p \in LeafPages(pages) :
            \A i, j \in 1..Len(Chain(pages, p, Len(pages) + 1)) :
                i # j => Chain(pages, p, Len(pages) + 1)[i]
                           # Chain(pages, p, Len(pages) + 1)[j]

\* the entry slots from entry ne of leaf cur to the end of the sibling
\* chain; 0 for the scan that found no further entry
SlotsAhead(pgs, cur, ne) ==
    IF cur = INVALID_NUMBER THEN 0
    ELSE Len(Chain(pgs, cur, Len(pgs) + 1)) * leafOccupancy - ne

\* every scanNext that returns a RecordId moves the scan forward in the chain
ScanNextMovesForward ==
    [][(open /\ lastOp' = "scanNext" /\ err' = "none") =>
          SlotsAhead(pages, currentPageNum', nextEntry')
            < SlotsAhead(pages, currentPageNum, nextEntry)]_vars

(***************************************************************************)
(* C28.  For any tree built by inserts and any successful startScan, each  *)
(* scanNext call returns or throws, and when the caller keeps calling      *)
(* scanNext, after finitely many calls one of them fails with              *)
(* SCAN_COMPLETED: the sibling chain is acyclic, and every scanNext that   *)
(* returns a RecordId leaves the scan at a later entry slot of the chain   *)
(* of leaves.                                                              *)
(***************************************************************************)
ScanRunsToCompletion ==
    /\ []SiblingChainIsAcyclic
    /\ ScanNextMovesForward
    /\ (open /\ lastOp = "startScan" /\ err = "none")
          ~> (lastOp = "scanNext" /\ err = "SCAN_COMPLETED")

\* a scan that returned RecordIds of more than one leaf and then reported
\* its completion
ScanOverSeveralLeavesCompleted ==
    /\ lastOp = "scanNext" /\ err = "SCAN_COMPLETED"
    /\ scanExecuting /\ scanFresh
    /\ Len(yielded) > leafOccupancy

\* the index after a startScan that failed with NO_SUCH_KEY
AfterNoSuchKey == open /\ lastOp = "startScan" /\ err = "NO_SUCH_KEY"

(***************************************************************************)
(* C29.  When startScan fails with NO_SUCH_KEY no page is left pinned, but *)
(* the index is left with scanExecuting = true, the current page invalid   *)
(* and nextEntry = -1; an immediately following endScan succeeds without   *)
(* unpinning anything, and an immediately following scanNext fails with    *)
(* SCAN_COMPLETED, not with SCAN_NOT_INITIALIZED.                          *)
(***************************************************************************)
NoSuchKeyLeavesAnExhaustedScan ==
    /\ [](AfterNoSuchKey =>
            /\ pinCnt = NoPins
            /\ scanExecuting
            /\ currentPageNum = INVALID_NUMBER
            /\ nextEntry = -1)
    /\ [][(AfterNoSuchKey /\ EndScan) =>
             /\ err' = "none"
             /\ log' = <<>>
             /\ pinCnt' = NoPins
             /\ ~scanExecuting']_vars
    /\ [][(AfterNoSuchKey /\ ScanNext) =>
             /\ err' = "SCAN_COMPLETED"
             /\ log' = <<>>
             /\ scanExecuting']_vars

\* scanNext called on the scan a startScan left when it found no entry
ScanNextAfterNoSuchKey ==
    /\ lastOp = "scanNext" /\ err = "SCAN_COMPLETED"
    /\ scanExecuting /\ scanFresh
    /\ yielded = <<>>
    /\ Rids # {}

====
